---- MODULE Spec2Model ----
(***************************************************************************)
(* A model of storacle's forecasting backend (backend/forecast.py) and of  *)
(* the handlers and scripts that fill the tables it reads (backend/main.py,*)
(* backend/scripts/seed_forecast_data.py, backend/models.py).              *)
(*                                                                         *)
(* Quantities are integers: a timestamp is a number of ticks, a day is     *)
(* TicksPerDay ticks, counts and demands are whole units, and a quantile   *)
(* of day-indices is kept as ten times its value (np.quantile with q in    *)
(* {0.1, 0.5, 0.9} interpolates linearly, so ten times the value is an     *)
(* integer).                                                               *)
(***************************************************************************)
EXTENDS Integers, Sequences, FiniteSets, TLC

VARIABLES db, now, seeded, manual, pc, call, ret

vars == <<db, now, seeded, manual, pc, call, ret>>

----------------------------------------------------------------------------
(* Program constants                                                       *)

MIN_DAYS_FOR_FORECAST == 2

\* the ensemble size of run_forecast (NUM_SAMPLES is 500 in the program)
NUM_SAMPLES == 3

(* Bounds of the model                                                     *)

\* ticks of the clock in one calendar day (tick 0 is 08:00, tick 1 is 18:00)
TicksPerDay == 2
\* the clock runs over the days 0..MaxDay
MaxDay == 1
\* days of history one run of the seed script writes (NUM_DAYS, scaled down)
SeedDays == 2
\* snapshots created through the handlers
MaxManual == 2
\* counts are drawn from 0..MaxCount
MaxCount == 1
\* InventoryCount rows of one snapshot
MaxCountsPerSnapshot == 2
\* forecasts run over 1..MaxHorizon days
MaxHorizon == 2
\* a demand series given directly lies on the days 0..MaxSeriesDay
MaxSeriesDay == 2
\* paths given to restock_day_from_path directly have up to MaxPathLen days
MaxPathLen == 3

\* the daily demands the fitted model predicts
PredValues == {-1, 0, 2}

Stores == {"default", "annex"}
Products == {"canned_beans", "soup"}
TimesOfDay == {"AM", "EOD"}
Counts == 0 .. MaxCount
\* the script's PRODUCT_TYPES
PRODUCT_TYPES == <<"canned_beans">>
STORE_NAME == "default"

RequestedProducts == {"canned_beans"}
NoStore == "<none>"
Scopes == Stores \cup {NoStore}

----------------------------------------------------------------------------
(* models.py: the two tables, one record per Snapshot with its counts      *)

InventoryCount(product_type, count) ==
    [product_type |-> product_type, count |-> count]

\* the primary keys only join a count to its snapshot: the counts are kept
\* inside the snapshot's record
Snapshot(timestamp, time_of_day, store_name, counts) ==
    [timestamp |-> timestamp, time_of_day |-> time_of_day,
     store_name |-> store_name, counts |-> counts]

MaxTime == (MaxDay + 1) * TicksPerDay - 1

\* request bodies of POST /snapshots/manual: one count per request
CountInputs ==
    {<<InventoryCount("canned_beans", c)>> : c \in Counts}
        \cup {<<InventoryCount("soup", 0)>>}

----------------------------------------------------------------------------
(* forecast.py: _date_floor                                                *)

_date_floor(ts) == ts - (ts % TicksPerDay)

----------------------------------------------------------------------------
(* forecast.py: build_daily_demand_series                                  *)

None == [kind |-> "None"]
Series(rows) == [kind |-> "Series", rows |-> rows]

HasProduct(s, product_type) ==
    \E i \in DOMAIN s.counts : s.counts[i].product_type = product_type

InScope(s, store_name) == store_name = NoStore \/ s.store_name = store_name

\* lines 53-65: the snapshots holding a count of the product, of one store
\* when the call is scoped
QuerySnapshots(d, product_type, store_name) ==
    {s \in d : HasProduct(s, product_type) /\ InScope(s, store_name)}

\* line 62, order_by(Snapshot.timestamp.asc()): the orders the query can
\* return; rows of equal timestamp come in any order
RECURSIVE AscendingOrders(_)
AscendingOrders(S) ==
    IF S = {} THEN {<<>>}
    ELSE LET first == {s \in S : \A t \in S : s.timestamp <= t.timestamp}
         IN  UNION {{<<s>> \o rest : rest \in AscendingOrders(S \ {s})} : s \in first}

\* a dict: d[k] = v
Put(f, k, v) == [x \in (DOMAIN f) \cup {k} |-> IF x = k THEN v ELSE f[x]]

EmptyDict == [x \in {} |-> 0]

\* by_date is a dict in insertion order: a sequence of (date, tod_counts)
HasDate(by_date, d) == \E i \in DOMAIN by_date : by_date[i].date = d

SetCountFirstWins(by_date, d, tod, c) ==
    [i \in DOMAIN by_date |->
        IF by_date[i].date = d /\ tod \notin DOMAIN by_date[i].tod_counts
        THEN [date |-> d, tod_counts |-> Put(by_date[i].tod_counts, tod, c)]
        ELSE by_date[i]]

\* line 77: by_date[d][s.time_of_day] = c.count
SetCount(by_date, d, tod, c) ==
    [i \in DOMAIN by_date |->
        IF by_date[i].date = d
        THEN [date |-> d, tod_counts |-> Put(by_date[i].tod_counts, tod, c)]
        ELSE by_date[i]]

\* lines 74-77: the loop over s.counts, from its i-th row on
RECURSIVE GroupCounts(_, _, _, _, _)
GroupCounts(by_date, s, d, product_type, i) ==
    IF i > Len(s.counts) THEN by_date
    ELSE GroupCounts(
            IF s.counts[i].product_type # product_type THEN by_date
            ELSE SetCount(by_date, d, s.time_of_day, s.counts[i].count),
            s, d, product_type, i + 1)

\* lines 69-77: the loop over the snapshots, from the k-th on
RECURSIVE GroupSnapshots(_, _, _, _)
GroupSnapshots(by_date, snapshots, product_type, k) ==
    IF k > Len(snapshots) THEN by_date
    ELSE LET s == snapshots[k]
             d == _date_floor(s.timestamp)
             entered == IF HasDate(by_date, d) THEN by_date
                        ELSE Append(by_date, [date |-> d, tod_counts |-> EmptyDict])
         IN  GroupSnapshots(GroupCounts(entered, s, d, product_type, 1),
                            snapshots, product_type, k + 1)

RemoveAt(seq, i) == SubSeq(seq, 1, i - 1) \o SubSeq(seq, i + 1, Len(seq))

RECURSIVE SortedByDateDescending(_)
SortedByDateDescending(items) ==
    IF items = <<>> THEN <<>>
    ELSE LET i == CHOOSE i \in DOMAIN items :
                     /\ \A j \in DOMAIN items : items[i].date >= items[j].date
                     /\ \A j \in 1 .. (i - 1) : items[j].date # items[i].date
         IN  <<items[i]>> \o SortedByDateDescending(RemoveAt(items, i))

\* sorted(by_date.items()) and sort_index(): ascending by date
RECURSIVE SortedByDate(_)
SortedByDate(items) ==
    IF items = <<>> THEN <<>>
    ELSE LET i == CHOOSE i \in DOMAIN items :
                     /\ \A j \in DOMAIN items : items[i].date <= items[j].date
                     /\ \A j \in 1 .. (i - 1) : items[j].date # items[i].date
         IN  <<items[i]>> \o SortedByDate(RemoveAt(items, i))

DailyDemandRowsEitherReading(items, k) ==
    LET tc == items[k].tod_counts
        am == IF "AM" \in DOMAIN tc THEN tc["AM"] ELSE 0
        eod == IF "EOD" \in DOMAIN tc THEN tc["EOD"] ELSE 0
    IN  IF DOMAIN tc # {} THEN <<[date |-> items[k].date, demand |-> am - eod]>>
        ELSE <<>>

DailyDemandRowOfMorning(items, k) ==
    LET tc == items[k].tod_counts
    IN  IF "AM" \in DOMAIN tc
        THEN <<[date |-> items[k].date,
                demand |-> tc["AM"] - (IF "EOD" \in DOMAIN tc THEN tc["EOD"] ELSE 0)]>>
        ELSE <<>>

\* lines 82-84: the row of one day, when the day has both readings
DailyDemandRow(items, k) ==
    LET tc == items[k].tod_counts
    IN  IF "AM" \in DOMAIN tc /\ "EOD" \in DOMAIN tc
        THEN <<[date |-> items[k].date, demand |-> tc["AM"] - tc["EOD"]]>>
        ELSE <<>>

\* lines 80-84
RECURSIVE DailyDemandRows(_, _)
DailyDemandRows(items, k) ==
    IF k > Len(items) THEN <<>>
    ELSE DailyDemandRow(items, k) \o DailyDemandRows(items, k + 1)

EnoughRowsAtLeastOne(rows) == Len(rows) >= 1

\* line 85, negated
EnoughRows(rows) == Len(rows) >= MIN_DAYS_FOR_FORECAST

\* lines 68-89, on the rows query.all() returned
build_daily_demand_series(snapshots, product_type) ==
    LET by_date == GroupSnapshots(<<>>, snapshots, product_type, 1)
        rows == DailyDemandRows(SortedByDate(by_date), 1)
    IN  IF ~EnoughRows(rows) THEN None ELSE Series(SortedByDate(rows))

----------------------------------------------------------------------------
(* The state: the two tables, the clock, and the call in progress          *)

NoCall == [entry |-> "none"]
NoRet == [fn |-> "none"]

Init ==
    /\ db = {}
    /\ now = 0
    /\ seeded = FALSE
    /\ manual = 0
    /\ pc = "idle"
    /\ call = NoCall
    /\ ret = NoRet


\* datetime.utcnow() moves on
Tick ==
    /\ pc = "idle" /\ ret = NoRet
    /\ now < MaxTime
    /\ now' = now + 1
    /\ ret' = NoRet
    /\ UNCHANGED <<db, seeded, manual, pc, call>>

\* main.py, POST /snapshots/manual (POST /snapshots/upload stores the counts
\* read from the photo the same way)
CreateManualSnapshot(time_of_day, store_name, counts) ==
    /\ pc = "idle" /\ ret = NoRet
    /\ manual < MaxManual
    /\ manual' = manual + 1
    /\ time_of_day \in TimesOfDay
    /\ db' = db \cup {Snapshot(now, time_of_day, store_name, counts)}
    /\ ret' = NoRet
    /\ UNCHANGED <<now, seeded, pc, call>>

RECURSIVE SeedCounts(_, _)
SeedCounts(k, stock) ==
    IF k > Len(PRODUCT_TYPES) THEN <<>>
    ELSE <<InventoryCount(PRODUCT_TYPES[k], stock)>> \o SeedCounts(k + 1, stock)

\* scripts/seed_forecast_data.py: an AM and an EOD snapshot for each of the
\* SeedDays days before today; stock[i] is the AM count of day i and
\* stock[i + 1] its EOD count (the next AM count is the previous EOD count)
SeedForecastData(stock) ==
    /\ pc = "idle" /\ ret = NoRet
    /\ ~seeded
    /\ LET base_date == _date_floor(now) - SeedDays * TicksPerDay
           am_snap(day) == Snapshot(base_date + day * TicksPerDay,
                                    "AM", STORE_NAME, SeedCounts(1, stock[day]))
           eod_snap(day) == Snapshot(base_date + day * TicksPerDay + 1,
                                     "EOD", STORE_NAME, SeedCounts(1, stock[day + 1]))
       IN  db' = db \cup {am_snap(day) : day \in 0 .. (SeedDays - 1)}
                    \cup {eod_snap(day) : day \in 0 .. (SeedDays - 1)}
    /\ seeded' = TRUE
    /\ ret' = NoRet
    /\ UNCHANGED <<now, manual, pc, call>>

----------------------------------------------------------------------------
(* forecast.py: the calls                                                  *)

\* a direct call of build_daily_demand_series(db, product_type, store_name)
BuildDailyDemandSeries(product_type, store_name) ==
    /\ pc = "idle" /\ ret = NoRet
    /\ \E snapshots \in AscendingOrders(QuerySnapshots(db, product_type, store_name)) :
          ret' = [fn |-> "build_daily_demand_series",
                  product_type |-> product_type,
                  store_name |-> store_name,
                  snapshots |-> snapshots,
                  value |-> build_daily_demand_series(snapshots, product_type)]
    /\ UNCHANGED <<db, now, seeded, manual, pc, call>>

\* lines 311-320: the EOD counts of the product, of one store when scoped
EodRows(d, product_type, store_name) ==
    {[timestamp |-> s.timestamp, count |-> s.counts[i].count] :
        <<s, i>> \in {<<t, j>> \in d \X (1 .. MaxCountsPerSnapshot) :
                        /\ j \in DOMAIN t.counts
                        /\ t.counts[j].product_type = product_type
                        /\ t.time_of_day = "EOD"
                        /\ InScope(t, store_name)}}

\* line 321, order_by(Snapshot.timestamp.desc()).first(): a row of the
\* greatest timestamp, None when there is no row
LatestEod(d, product_type, store_name) ==
    LET rows == EodRows(d, product_type, store_name)
    IN  IF rows = {} THEN {[found |-> FALSE, count |-> 0]}
        ELSE {[found |-> TRUE, count |-> r.count] :
                 r \in {x \in rows : \A y \in rows : y.timestamp <= x.timestamp}}

\* lines 239-242 of run_forecast_from_series: the check on entry; past it
\* the next thing the call does is forecast_demand
EnterRunForecastFromSeries(c) ==
    IF Len(c.demand_series) < MIN_DAYS_FOR_FORECAST
    THEN /\ pc' = "idle"
         /\ call' = NoCall
         /\ ret' = [fn |-> c.entry, args |-> c, raised |-> "ValueError"]
    ELSE /\ pc' = "forecast_demand"
         /\ call' = c
         /\ ret' = NoRet

\* lines 307-332
RunForecast(product_type, store_name, horizon, safety_stock) ==
    /\ pc = "idle" /\ ret = NoRet
    /\ \E snapshots \in AscendingOrders(QuerySnapshots(db, product_type, store_name)) :
          LET demand_series == build_daily_demand_series(snapshots, product_type)
          IN  IF demand_series = None \/ Len(demand_series.rows) < MIN_DAYS_FOR_FORECAST
              THEN /\ pc' = "idle"
                   /\ call' = NoCall
                   /\ ret' = [fn |-> "run_forecast", product_type |-> product_type,
                              store_name |-> store_name, value |-> None]
              ELSE \E latest_eod \in LatestEod(db, product_type, store_name) :
                      EnterRunForecastFromSeries(
                          [entry |-> "run_forecast",
                           demand_series |-> demand_series.rows,
                           current_inventory |-> latest_eod.count,
                           eod_found |-> latest_eod.found,
                           horizon |-> horizon,
                           safety_stock |-> safety_stock,
                           num_samples |-> NUM_SAMPLES,
                           product_type |-> product_type,
                           store_name |-> store_name])
    /\ UNCHANGED <<db, now, seeded, manual>>

\* a direct call of run_forecast_from_series, up to forecast_demand
RunForecastFromSeries(demand_series, current_inventory, horizon, safety_stock, num_samples) ==
    /\ pc = "idle" /\ ret = NoRet
    /\ EnterRunForecastFromSeries(
          [entry |-> "run_forecast_from_series",
           demand_series |-> demand_series,
           current_inventory |-> current_inventory,
           eod_found |-> TRUE,
           horizon |-> horizon,
           safety_stock |-> safety_stock,
           num_samples |-> num_samples,
           product_type |-> "canned_beans",
           store_name |-> NoStore])
    /\ UNCHANGED <<db, now, seeded, manual>>

----------------------------------------------------------------------------
(* forecast.py: restock_day_from_path                                      *)

\* an Optional value: None is <<>>, a value x is <<x>>
NoValue == <<>>
Some(x) == <<x>>

\* lines 158-162: the loop from the i-th entry of the path on (i - 1 is the
\* 0-based index enumerate gives)
RECURSIVE RestockLoop(_, _, _, _)
RestockLoop(inv, demand_path, safety_stock, i) ==
    IF i > Len(demand_path) THEN NoValue
    ELSE IF inv - demand_path[i] <= safety_stock THEN Some(i - 1)
    ELSE RestockLoop(inv - demand_path[i], demand_path, safety_stock, i + 1)

restock_day_from_path_strict(current_inventory, demand_path, safety_stock) ==
    RestockLoop(current_inventory, demand_path, safety_stock - 1, 1)

\* lines 157-162
restock_day_from_path(current_inventory, demand_path, safety_stock) ==
    RestockLoop(current_inventory, demand_path, safety_stock, 1)

----------------------------------------------------------------------------
(* numpy arrays: a shape and the entries in row-major order                *)

NdArray(shape, data) == [shape |-> shape, data |-> data]

Ndim(a) == Len(a.shape)

NotOne(n) == n # 1

\* np.squeeze: the axes of length 1 go, the entries stay
Squeeze(a) == NdArray(SelectSeq(a.shape, NotOne), a.data)

\* a[:, np.newaxis] of a 1-D array
NewAxis(a) == NdArray(<<a.shape[1], 1>>, a.data)

\* a[:, s] of a 2-D array, s counted from 1
Column(a, s) == [t \in 1 .. a.shape[1] |-> a.data[(t - 1) * a.shape[2] + s]]

\* a[:, 0, :] of a 3-D array
FirstComponent(a) ==
    NdArray(<<a.shape[1], a.shape[3]>>,
            [k \in 1 .. (a.shape[1] * a.shape[3]) |->
                a.data[((k - 1) \div a.shape[3]) * a.shape[2] * a.shape[3]
                       + ((k - 1) % a.shape[3]) + 1]])

----------------------------------------------------------------------------
(* Darts: a TimeSeries of one component is its (time, component, sample)   *)
(* array                                                                   *)

\* the series of n_samples paths of n_timesteps values: samples[s][t]
TimeSeriesOf(n_timesteps, n_samples, samples) ==
    NdArray(<<n_timesteps, 1, n_samples>>,
            [k \in 1 .. (n_timesteps * n_samples) |->
                samples[((k - 1) % n_samples) + 1][((k - 1) \div n_samples) + 1]])

\* TimeSeries.values(): forecast.py provides for the 3-D array of all the
\* samples (lines 180-184) and for the 2-D (time, component) array of the
\* first sample (lines 185-186)
AllValues(series) == series

FirstSampleValues(series) ==
    NdArray(<<series.shape[1], series.shape[2]>>,
            [t \in 1 .. series.shape[1] |-> series.data[(t - 1) * series.shape[3] + 1]])

Values(series) == {AllValues(series), FirstSampleValues(series)}

\* values().flatten()
Flattened(series) == {vals.data : vals \in Values(series)}

----------------------------------------------------------------------------
(* forecast.py: restock_date_with_confidence                               *)

\* the quantile fractions, in tenths
RESTOCK_QUANTILE_LOW == 1
RESTOCK_QUANTILE_HIGH == 9
MEDIAN_QUANTILE == 5

\* lines 179-188: demand_matrix from values()
DemandMatrix(vals) ==
    LET squeezed == Squeeze(vals)
        m == IF Ndim(vals) = 3 /\ Ndim(squeezed) = 3 THEN FirstComponent(squeezed)
             ELSE squeezed
    IN  IF Ndim(m) = 1 THEN NewAxis(m) ELSE m

\* lines 191-195
RestockDays(current_inventory, demand_matrix, safety_stock) ==
    [s \in 1 .. demand_matrix.shape[2] |->
        restock_day_from_path(current_inventory, Column(demand_matrix, s), safety_stock)]

\* line 198
DaysForQuantile(restock_days, n_days) ==
    [i \in DOMAIN restock_days |->
        IF restock_days[i] # NoValue THEN restock_days[i][1] ELSE n_days]

RECURSIVE SortAscending(_)
SortAscending(a) ==
    IF a = <<>> THEN <<>>
    ELSE LET i == CHOOSE i \in DOMAIN a :
                     /\ \A j \in DOMAIN a : a[i] <= a[j]
                     /\ \A j \in 1 .. (i - 1) : a[j] # a[i]
         IN  <<a[i]>> \o SortAscending(RemoveAt(a, i))

\* np.quantile(a, q / 10) and np.median(a) (q = 5), linear interpolation
\* between the two nearest entries; the value is returned times ten
Quantile(a, q) ==
    LET sorted == SortAscending(a)
        pos == q * (Len(a) - 1)
        j == (pos \div 10) + 1
        frac == pos % 10
    IN  IF frac = 0 THEN 10 * sorted[j]
        ELSE 10 * sorted[j] + frac * (sorted[j + 1] - sorted[j])

\* int(round(x)) of x = day10 / 10: Python rounds a half to the even integer
RoundDay(day10) ==
    LET whole == day10 \div 10
        frac == day10 % 10
    IN  IF frac < 5 THEN whole
        ELSE IF frac > 5 THEN whole + 1
        ELSE IF whole % 2 = 0 THEN whole ELSE whole + 1

\* lines 205-210: day_to_date; a date is the tick of its midnight
DayToDate(day10, n_days, start_date) ==
    LET d == IF RoundDay(day10) >= n_days THEN n_days ELSE RoundDay(day10)
    IN  start_date + d * TicksPerDay

CountSome(restock_days) ==
    Cardinality({i \in DOMAIN restock_days : restock_days[i] # NoValue})

RestockEstimateSwapped(current_inventory, demand_matrix, start_date, safety_stock) ==
    LET n_days == demand_matrix.shape[1]
        restock_days == RestockDays(current_inventory, demand_matrix, safety_stock)
        days_arr == DaysForQuantile(restock_days, n_days)
        median_day == Quantile(days_arr, MEDIAN_QUANTILE)
        low_day == Quantile(days_arr, RESTOCK_QUANTILE_HIGH)
        high_day == Quantile(days_arr, RESTOCK_QUANTILE_LOW)
    IN  [restock_date_median |-> DayToDate(median_day, n_days, start_date),
         restock_date_low |-> DayToDate(low_day, n_days, start_date),
         restock_date_high |-> DayToDate(high_day, n_days, start_date),
         confidence_level |-> RESTOCK_QUANTILE_HIGH - RESTOCK_QUANTILE_LOW,
         restock_day_median |-> median_day,
         restock_day_low |-> low_day,
         restock_day_high |-> high_day,
         paths_within_horizon |-> CountSome(restock_days)]

\* lines 190-221, from demand_matrix on
RestockEstimate(current_inventory, demand_matrix, start_date, safety_stock) ==
    LET n_days == demand_matrix.shape[1]
        restock_days == RestockDays(current_inventory, demand_matrix, safety_stock)
        days_arr == DaysForQuantile(restock_days, n_days)
        median_day == Quantile(days_arr, MEDIAN_QUANTILE)
        low_day == Quantile(days_arr, RESTOCK_QUANTILE_LOW)
        high_day == Quantile(days_arr, RESTOCK_QUANTILE_HIGH)
    IN  [restock_date_median |-> DayToDate(median_day, n_days, start_date),
         restock_date_low |-> DayToDate(low_day, n_days, start_date),
         restock_date_high |-> DayToDate(high_day, n_days, start_date),
         confidence_level |-> RESTOCK_QUANTILE_HIGH - RESTOCK_QUANTILE_LOW,
         restock_day_median |-> median_day,
         restock_day_low |-> low_day,
         restock_day_high |-> high_day,
         paths_within_horizon |-> CountSome(restock_days)]

Raised(exception) == [raised |-> exception]
Returned(value) == [raised |-> "", value |-> value]

\* lines 178-221: what a call can do; unpacking demand_matrix.shape (line
\* 190) raises ValueError unless the array is 2-D
restock_date_with_confidence(current_inventory, samples_forecast, start_date, safety_stock) ==
    {IF Ndim(DemandMatrix(vals)) # 2 THEN Raised("ValueError")
     ELSE Returned(RestockEstimate(current_inventory, DemandMatrix(vals),
                                   start_date, safety_stock)) :
        vals \in Values(samples_forecast)}

----------------------------------------------------------------------------
(* forecast.py: forecast_demand and the rest of run_forecast_from_series   *)

\* the paths of n values the fitted model can predict
Paths(n) == [1 .. n -> PredValues]

\* model.predict(n, num_samples): a series of n steps and num_samples paths
Predict(n, num_samples) ==
    {TimeSeriesOf(n, num_samples, samples) : samples \in [1 .. num_samples -> Paths(n)]}

forecast_demand_off_by_one(demand_series, horizon, num_samples) ==
    {Raised("Exception")} \cup
    IF num_samples <= 1
    THEN {[raised |-> "", point |-> pred, samples |-> NoValue] :
             pred \in Predict(horizon + 1, 1)}
    ELSE {[raised |-> "", point |-> o[1], samples |-> Some(o[2])] :
             o \in Predict(horizon + 1, 1) \X Predict(horizon, num_samples)}

forecast_demand_always_samples(demand_series, horizon, num_samples) ==
    {Raised("Exception")} \cup
    {[raised |-> "", point |-> o[1], samples |-> Some(o[2])] :
        o \in Predict(horizon, 1) \X Predict(horizon, IF num_samples <= 1 THEN 1 ELSE num_samples)}

\* forecast_demand's random_state (line 116): no caller passes another
DEFAULT_RANDOM_STATE == Some(42)

\* a random generator: whose it is, the values it draws in order, and how
\* many of them it has drawn
Generator(owner, stream, pos) == [owner |-> owner, stream |-> stream, pos |-> pos]

\* the process-wide generator before its first draw; a model built with a
\* seed never draws from it
IdleProcess(len) == Generator("process", [i \in 1 .. len |-> 0], 0)

\* what the library does with one training series, horizon and ensemble
\* size: whether from_series or fit raises, the point forecast of the fitted
\* model, and the values a generator seeded with random_state draws
Libraries(horizon, num_samples) ==
    [fit_raises : BOOLEAN, point : Paths(horizon),
     seeded : [1 .. (horizon * num_samples) -> PredValues]]

ModelGeneratorOfProcess(lib, random_state, process) == process

\* lines 129-133: ExponentialSmoothing(random_state=...) draws from a fresh
\* generator seeded with random_state, and from the process-wide generator
\* when random_state is None
ModelGenerator(lib, random_state, process) ==
    IF random_state # NoValue THEN Generator("model", lib.seeded, 0) ELSE process

\* lines 140-141: predict(n, num_samples) draws the num_samples paths
PredictSamples(generator, n, num_samples) ==
    TimeSeriesOf(n, num_samples,
                 [s \in 1 .. num_samples |->
                     [t \in 1 .. n |-> generator.stream[generator.pos + (s - 1) * n + t]]])

\* lines 128-142 in a library that behaves as lib
ForecastDemandWith(lib, random_state, process, horizon, num_samples) ==
    IF lib.fit_raises THEN Raised("Exception")
    ELSE LET pred_point == TimeSeriesOf(horizon, 1, <<lib.point>>)
             generator == ModelGenerator(lib, random_state, process)
         IN  IF num_samples <= 1
             THEN [raised |-> "", point |-> pred_point, samples |-> NoValue]
             ELSE [raised |-> "", point |-> pred_point,
                   samples |-> Some(PredictSamples(generator, horizon, num_samples))]

\* the process-wide generator after the call: it has moved on when the model
\* drew the samples from it
ProcessAfter(lib, random_state, process, horizon, num_samples) ==
    IF /\ ~lib.fit_raises
       /\ num_samples > 1
       /\ ModelGenerator(lib, random_state, process).owner = "process"
    THEN Generator("process", process.stream, process.pos + horizon * num_samples)
    ELSE process

\* lines 128-142: what a call can do. from_series, fit and predict are the
\* library's: they raise, or predict gives series of horizon steps
forecast_demand(demand_series, horizon, num_samples) ==
    {ForecastDemandWith(lib, DEFAULT_RANDOM_STATE,
                        IdleProcess(horizon * num_samples), horizon, num_samples) :
        lib \in Libraries(horizon, num_samples)}

Max(a, b) == IF a >= b THEN a ELSE b

RECURSIVE SumFrom(_, _)
SumFrom(point_values, i) ==
    IF i > Len(point_values) THEN 0
    ELSE point_values[i] + SumFrom(point_values, i + 1)

ClippedSumOfTotal(point_values, i) == Max(0, SumFrom(point_values, i))

\* np.maximum(0, point_values).sum()
RECURSIVE ClippedSum(_, _)
ClippedSum(point_values, i) ==
    IF i > Len(point_values) THEN 0
    ELSE Max(0, point_values[i]) + ClippedSum(point_values, i + 1)

\* lines 249-292: the results the call can return once forecast_demand has
\* returned (point_forecast, samples_forecast); c holds the arguments
RunForecastResults(c, point_forecast, samples_forecast) ==
    LET last_date == c.demand_series[Len(c.demand_series)].date
        start_date == last_date + TicksPerDay
        Base(point_values) ==
            [product_type |-> c.product_type,
             store_name |-> c.store_name,
             current_inventory |-> c.current_inventory,
             horizon_days |-> c.horizon,
             predicted_demand_per_day |-> point_values,
             predicted_stock_needed |-> ClippedSum(point_values, 1),
             demand_history_days |-> Len(c.demand_series)]
        Merge(f, g) == [k \in (DOMAIN f) \cup (DOMAIN g) |->
                           IF k \in DOMAIN g THEN g[k] ELSE f[k]]
        Deterministic(point_values) ==
            LET day == restock_day_from_path(c.current_inventory, point_values,
                                             c.safety_stock)
            IN  Merge(Base(point_values),
                      [restock_date_median |->
                           IF day # NoValue
                           THEN _date_floor(start_date + day[1] * TicksPerDay)
                           ELSE _date_floor(start_date + c.horizon * TicksPerDay),
                       restock_confidence_level |-> NoValue])
        Probabilistic(point_values, restock) ==
            Merge(Base(point_values),
                  [restock_date_median |-> restock.restock_date_median,
                   restock_date_low |-> restock.restock_date_low,
                   restock_date_high |-> restock.restock_date_high,
                   restock_confidence_level |-> Some(restock.confidence_level),
                   restock_day_median |-> restock.restock_day_median,
                   restock_day_low |-> restock.restock_day_low,
                   restock_day_high |-> restock.restock_day_high])
    IN  UNION {
          IF samples_forecast # NoValue
          THEN {IF o.raised # "" THEN o ELSE Returned(Probabilistic(point_values, o.value)) :
                   o \in restock_date_with_confidence(c.current_inventory,
                                                      samples_forecast[1], start_date,
                                                      c.safety_stock)}
          ELSE {Returned(Deterministic(point_values))} :
          point_values \in Flattened(point_forecast)}

\* lines 244-292 of run_forecast_from_series, for the call that passed the
\* check on entry
ForecastAndEstimate ==
    /\ pc = "forecast_demand"
    /\ \E f \in forecast_demand(call.demand_series, call.horizon, call.num_samples) :
          IF f.raised # ""
          THEN ret' = [fn |-> call.entry, args |-> call, raised |-> f.raised]
          ELSE \E o \in RunForecastResults(call, f.point, f.samples) :
                  ret' = [fn |-> call.entry, args |-> call] @@ o
    /\ pc' = "idle"
    /\ call' = NoCall
    /\ UNCHANGED <<db, now, seeded, manual>>

\* a direct call of forecast_demand
ForecastDemand(demand_series, horizon, num_samples) ==
    /\ pc = "idle" /\ ret = NoRet
    /\ \E o \in forecast_demand(demand_series, horizon, num_samples) :
          ret' = [fn |-> "forecast_demand",
                  args |-> [demand_series |-> demand_series,
                            horizon |-> horizon,
                            num_samples |-> num_samples]] @@ o
    /\ UNCHANGED <<db, now, seeded, manual, pc, call>>

\* the states the process-wide generator can be in: it draws a first, then b
ProcessGenerators(len) ==
    {Generator("process", [i \in 1 .. (2 * len) |-> IF i <= len THEN a ELSE b], 0) :
        a \in PredValues, b \in PredValues}

\* two calls of forecast_demand with the same arguments, one after the
\* other in one process
ForecastDemandTwice(demand_series, horizon, num_samples) ==
    /\ pc = "idle" /\ ret = NoRet
    /\ \E lib \in Libraries(horizon, num_samples),
          process \in ProcessGenerators(horizon * num_samples) :
          LET first == ForecastDemandWith(lib, DEFAULT_RANDOM_STATE, process,
                                          horizon, num_samples)
              later == ProcessAfter(lib, DEFAULT_RANDOM_STATE, process,
                                    horizon, num_samples)
              second == ForecastDemandWith(lib, DEFAULT_RANDOM_STATE, later,
                                           horizon, num_samples)
          IN  ret' = [fn |-> "forecast_demand_twice",
                      args |-> [demand_series |-> demand_series,
                                horizon |-> horizon,
                                num_samples |-> num_samples],
                      first |-> first,
                      second |-> second]
    /\ UNCHANGED <<db, now, seeded, manual, pc, call>>

\* a direct call of restock_day_from_path
RestockDayFromPath(current_inventory, demand_path, safety_stock) ==
    /\ pc = "idle" /\ ret = NoRet
    /\ ret' = [fn |-> "restock_day_from_path",
               args |-> [current_inventory |-> current_inventory,
                         demand_path |-> demand_path,
                         safety_stock |-> safety_stock],
               raised |-> "",
               value |-> restock_day_from_path(current_inventory, demand_path,
                                               safety_stock)]
    /\ UNCHANGED <<db, now, seeded, manual, pc, call>>

\* a direct call of restock_date_with_confidence
RestockDateWithConfidence(current_inventory, samples_forecast, start_date, safety_stock) ==
    /\ pc = "idle" /\ ret = NoRet
    /\ \E o \in restock_date_with_confidence(current_inventory, samples_forecast,
                                             start_date, safety_stock) :
          ret' = [fn |-> "restock_date_with_confidence",
                  args |-> [current_inventory |-> current_inventory,
                            samples_forecast |-> samples_forecast,
                            start_date |-> start_date,
                            safety_stock |-> safety_stock]] @@ o
    /\ UNCHANGED <<db, now, seeded, manual, pc, call>>

\* the caller takes the value returned
Return ==
    /\ pc = "idle"
    /\ ret # NoRet
    /\ ret' = NoRet
    /\ UNCHANGED <<db, now, seeded, manual, pc, call>>

----------------------------------------------------------------------------
(* Inputs of the calls                                                     *)

Horizons == 1 .. MaxHorizon
SafetyStocks == {0, 1}
\* the safety stocks given to run_forecast_from_series directly
RequestedSafetyStocks == SafetyStocks \cup {-1}
\* the ensemble sizes given to forecast_demand directly
DirectSamples == {1, 2}
SeedStocks == [0 .. SeedDays -> Counts]

\* the demand series on the days of D, v units each day
RECURSIVE SeriesOn(_, _)
SeriesOn(D, v) ==
    IF D = {} THEN <<>>
    ELSE LET d == CHOOSE x \in D : \A y \in D : x <= y
         IN  <<[date |-> d * TicksPerDay, demand |-> v]>> \o SeriesOn(D \ {d}, v)

SeriesInputs == {SeriesOn(D, 4) : D \in SUBSET (0 .. MaxSeriesDay)}

Inventories == {0, 1, 3}

\* the paths given to restock_day_from_path directly: every short path, and
\* constant demand of 4 units a day over up to 8 days
ConstantPath(v, n) == [i \in 1 .. n |-> v]
PathInputs ==
    UNION {Paths(n) : n \in 0 .. MaxPathLen} \cup {ConstantPath(4, n) : n \in 0 .. 8}

\* the ensembles given to restock_date_with_confidence directly
EnsembleInputs ==
    UNION {Predict(n, k) : <<n, k>> \in Horizons \X (1 .. NUM_SAMPLES)}

----------------------------------------------------------------------------
(* The tables and the calls that read them, up to model fitting            *)

NextDb ==
    \/ Tick
    \/ \E tod \in TimesOfDay, store \in Stores, counts \in CountInputs :
          CreateManualSnapshot(tod, store, counts)
    \/ \E stock \in SeedStocks : SeedForecastData(stock)
    \/ \E p \in RequestedProducts, store \in Scopes : BuildDailyDemandSeries(p, store)
    \/ \E p \in RequestedProducts, store \in Scopes, h \in Horizons, ss \in SafetyStocks :
          RunForecast(p, store, h, ss)
    \/ \E series \in {s \in SeriesInputs : Len(s) <= MIN_DAYS_FOR_FORECAST} :
          RunForecastFromSeries(series, 1, 1, 0, NUM_SAMPLES)

    \/ Return

SpecDb == Init /\ [][NextDb]_vars

----------------------------------------------------------------------------
(* The forecast and the restock estimate, which read no table              *)

NextForecast ==
    \/ \E series \in SeriesInputs, inv \in Inventories, h \in Horizons,
          ss \in RequestedSafetyStocks, n \in 1 .. NUM_SAMPLES :
          RunForecastFromSeries(series, inv, h, ss, n)
    \/ ForecastAndEstimate
    \/ \E series \in SeriesInputs, n \in DirectSamples : ForecastDemand(series, 1, n)
    \/ \E series \in SeriesInputs, n \in DirectSamples :
          ForecastDemandTwice(series, 1, n)
    \/ \E inv \in Inventories \cup {25}, path \in PathInputs, ss \in SafetyStocks :
          RestockDayFromPath(inv, path, ss)
    \/ \E inv \in Inventories, samples \in EnsembleInputs, ss \in SafetyStocks :
          RestockDateWithConfidence(inv, samples, TicksPerDay, ss)
    \/ Return

SpecForecast == Init /\ [][NextForecast]_vars

Next == NextDb \/ NextForecast

Spec == Init /\ [][Next]_vars

----------------------------------------------------------------------------
(* Claims about the demand series, checked under SpecDb                    *)

CalendarDay(ts) == ts \div TicksPerDay

\* the observations of a product in a scope: one per InventoryCount row
Observations(product_type, store_name) ==
    {[timestamp |-> s.timestamp, time_of_day |-> s.time_of_day,
      store_name |-> s.store_name, count |-> s.counts[i].count] :
        <<s, i>> \in {<<t, j>> \in db \X (1 .. MaxCountsPerSnapshot) :
                        /\ j \in DOMAIN t.counts
                        /\ t.counts[j].product_type = product_type
                        /\ store_name \in {NoStore, t.store_name}}}

\* the calendar days that have both an AM and an EOD count of the product
QualifyingDays(product_type, store_name) ==
    {CalendarDay(a.timestamp) :
        a \in {o \in Observations(product_type, store_name) :
                 /\ o.time_of_day = "AM"
                 /\ \E e \in Observations(product_type, store_name) :
                       /\ e.time_of_day = "EOD"
                       /\ CalendarDay(e.timestamp) = CalendarDay(o.timestamp)}}

BuildReturned == ret.fn = "build_daily_demand_series"
SeriesReturned == BuildReturned /\ ret.value # None

\* C1: with fewer than 2 calendar days having both an AM and an EOD count
\* of the product, build_daily_demand_series returns None, and neither
\* run_forecast nor run_forecast_from_series (on a series of fewer than 2
\* points) gets to forecast_demand.
C1_InsufficientHistory ==
    /\ (BuildReturned /\
        Cardinality(QualifyingDays(ret.product_type, ret.store_name))
            < MIN_DAYS_FOR_FORECAST)
          => ret.value = None
    /\ (pc = "forecast_demand" /\ call.entry = "run_forecast")
          => Cardinality(QualifyingDays(call.product_type, call.store_name))
                >= MIN_DAYS_FOR_FORECAST
    /\ pc = "forecast_demand" => Len(call.demand_series) >= MIN_DAYS_FOR_FORECAST
    /\ (ret.fn = "run_forecast_from_series" /\ Len(ret.args.demand_series) < 2)
          => ret.raised = "ValueError"

\* one qualifying day is on record, and run_forecast returned None
C1_Witness ==
    /\ ret.fn = "run_forecast"
    /\ ret.value = None
    /\ Cardinality(QualifyingDays(ret.product_type, ret.store_name)) = 1

\* C2 (as claimed): every point of the returned series is the AM count
\* minus the EOD count of two observations of that day, of the product and
\* of one and the same store, scoped call or not.
C2_DemandOfOneLocation ==
    SeriesReturned =>
        \A i \in DOMAIN ret.value.rows :
            \E a, e \in Observations(ret.product_type, ret.store_name) :
                /\ a.time_of_day = "AM" /\ e.time_of_day = "EOD"
                /\ a.store_name = e.store_name
                /\ CalendarDay(a.timestamp) * TicksPerDay = ret.value.rows[i].date
                /\ CalendarDay(e.timestamp) * TicksPerDay = ret.value.rows[i].date
                /\ ret.value.rows[i].demand = a.count - e.count

\* C3: the returned series holds a date if and only if that calendar day
\* has both an AM and an EOD count of the product; a day with one reading
\* only is not in it.
C3_BothReadings ==
    SeriesReturned =>
        {ret.value.rows[i].date : i \in DOMAIN ret.value.rows}
            = {d * TicksPerDay : d \in QualifyingDays(ret.product_type, ret.store_name)}

\* a series was returned while some day has one reading only
C3_Witness ==
    /\ SeriesReturned
    /\ \E o \in Observations(ret.product_type, ret.store_name) :
          CalendarDay(o.timestamp) \notin QualifyingDays(ret.product_type, ret.store_name)

\* C4: the returned series is strictly increasing by date, and each date is
\* the midnight of a day on which the product was observed.
C4_StrictlyIncreasing ==
    SeriesReturned =>
        /\ \A i, j \in DOMAIN ret.value.rows :
              i < j => ret.value.rows[i].date < ret.value.rows[j].date
        /\ \A i \in DOMAIN ret.value.rows :
              /\ ret.value.rows[i].date % TicksPerDay = 0
              /\ \E o \in Observations(ret.product_type, ret.store_name) :
                    /\ o.timestamp >= ret.value.rows[i].date
                    /\ o.timestamp < ret.value.rows[i].date + TicksPerDay

\* a series was returned from snapshots some of which are not at midnight
\* and several of which fall on one day and marker
C4_Witness ==
    /\ SeriesReturned
    /\ \E k, l \in DOMAIN ret.snapshots :
          /\ k # l
          /\ CalendarDay(ret.snapshots[k].timestamp) = CalendarDay(ret.snapshots[l].timestamp)
          /\ ret.snapshots[k].time_of_day = ret.snapshots[l].time_of_day
          /\ ret.snapshots[k].timestamp % TicksPerDay # 0

\* the counts of the product on a day and marker, in input order: the
\* snapshots as the query returned them, and in each its counts in order
RECURSIVE CountsInOrder(_, _, _, _, _)
CountsInOrder(snapshots, product_type, day, tod, k) ==
    IF k > Len(snapshots) THEN <<>>
    ELSE LET s == snapshots[k]
             IsProduct(c) == c.product_type = product_type
             mine == IF CalendarDay(s.timestamp) = day /\ s.time_of_day = tod
                     THEN SelectSeq(s.counts, IsProduct) ELSE <<>>
         IN  [i \in DOMAIN mine |-> mine[i].count]
                \o CountsInOrder(snapshots, product_type, day, tod, k + 1)

Last(seq) == seq[Len(seq)]

\* C5: the query returns the snapshots by ascending timestamp, and of the
\* counts of one day and marker the series uses the last one in that order.
C5_LastWins ==
    SeriesReturned =>
        /\ \A k, l \in DOMAIN ret.snapshots :
              k < l => ret.snapshots[k].timestamp <= ret.snapshots[l].timestamp
        /\ \A i \in DOMAIN ret.value.rows :
              LET day == CalendarDay(ret.value.rows[i].date)
                  am == CountsInOrder(ret.snapshots, ret.product_type, day, "AM", 1)
                  eod == CountsInOrder(ret.snapshots, ret.product_type, day, "EOD", 1)
              IN  /\ am # <<>> /\ eod # <<>>
                  /\ ret.value.rows[i].demand = Last(am) - Last(eod)

\* a series was returned, and a day and marker of it has two different counts
C5_Witness ==
    /\ SeriesReturned
    /\ \E i \in DOMAIN ret.value.rows, tod \in TimesOfDay :
          LET cs == CountsInOrder(ret.snapshots, ret.product_type,
                                  CalendarDay(ret.value.rows[i].date), tod, 1)
          IN  Len(cs) >= 2 /\ cs[1] # Last(cs)

----------------------------------------------------------------------------
(* Claims about the forecast and the restock estimate, checked under       *)
(* SpecForecast                                                            *)

\* a call of the pipeline has returned a result
PipelineReturned ==
    /\ ret.fn \in {"run_forecast", "run_forecast_from_series"}
    /\ "raised" \in DOMAIN ret
    /\ ret.raised = ""

Probabilistic(result) == result.restock_confidence_level # NoValue

\* C6: a result of the pipeline has as many entries in
\* predicted_demand_per_day as its horizon_days, which is the horizon asked
\* for, whether the call is deterministic (num_samples <= 1) or probabilistic.
C6_HorizonEntries ==
    PipelineReturned =>
        /\ Len(ret.args.demand_series) >= MIN_DAYS_FOR_FORECAST
        /\ ret.value.horizon_days = ret.args.horizon
        /\ Len(ret.value.predicted_demand_per_day) = ret.value.horizon_days
        /\ Probabilistic(ret.value) <=> ret.args.num_samples > 1

C6_Witness ==
    /\ PipelineReturned
    /\ ret.args.horizon = MaxHorizon
    /\ ret.args.num_samples = NUM_SAMPLES
    /\ Probabilistic(ret.value)
    /\ Len(ret.value.predicted_demand_per_day) = MaxHorizon

\* the sum of the first n entries of a path
RECURSIVE PrefixSum(_, _)
PrefixSum(path, n) == IF n = 0 THEN 0 ELSE PrefixSum(path, n - 1) + path[n]

\* the 0-based indices at which the inventory left is at or below the
\* safety stock
CrossingIndices(current_inventory, demand_path, safety_stock) ==
    {i \in 0 .. (Len(demand_path) - 1) :
        current_inventory - PrefixSum(demand_path, i + 1) <= safety_stock}

\* C7: restock_day_from_path returns the smallest 0-based index i at which
\* current_inventory minus the demand of days 0..i is at or below the safety
\* stock, and None exactly when the path has no such index; 4 units a day
\* with 25 on hand and no safety stock give index 6.
C7_SmallestIndex ==
    ret.fn = "restock_day_from_path" =>
        LET a == ret.args
            crossing == CrossingIndices(a.current_inventory, a.demand_path,
                                        a.safety_stock)
        IN  /\ ret.value = NoValue <=> crossing = {}
            /\ ret.value # NoValue =>
                  /\ ret.value[1] \in crossing
                  /\ \A i \in crossing : ret.value[1] <= i
            /\ (/\ a.current_inventory = 25
                /\ a.safety_stock = 0
                /\ Len(a.demand_path) >= 7
                /\ \A i \in DOMAIN a.demand_path : a.demand_path[i] = 4)
               => ret.value = Some(6)

C7_Witness ==
    /\ ret.fn = "restock_day_from_path"
    /\ ret.args.current_inventory = 25
    /\ ret.args.safety_stock = 0
    /\ ret.args.demand_path = ConstantPath(4, 8)
    /\ ret.value = Some(6)

\* a direct call of restock_date_with_confidence has returned an estimate
EstimateReturned ==
    /\ ret.fn = "restock_date_with_confidence"
    /\ ret.raised = ""

\* C8: in every estimate of restock_date_with_confidence the day indices are
\* ordered low <= median <= high, and so are the dates, in the estimate and
\* in the result of the pipeline that carries it.
C8_LowMedianHigh ==
    /\ EstimateReturned \/ (PipelineReturned /\ Probabilistic(ret.value)) =>
          /\ ret.value.restock_day_low <= ret.value.restock_day_median
          /\ ret.value.restock_day_median <= ret.value.restock_day_high
          /\ ret.value.restock_date_low <= ret.value.restock_date_median
          /\ ret.value.restock_date_median <= ret.value.restock_date_high

C8_Witness ==
    /\ PipelineReturned
    /\ Probabilistic(ret.value)
    /\ ret.value.restock_day_low < ret.value.restock_day_median
    /\ ret.value.restock_day_median < ret.value.restock_day_high
    /\ ret.value.restock_date_low < ret.value.restock_date_high

\* the first day of the forecast: the day after the last day of the series
StartDate(demand_series) == demand_series[Len(demand_series)].date + TicksPerDay

\* C9 (as claimed): in every result of the pipeline no restock day index
\* (low, median, high; kept in tenths of a day) is above the horizon and no
\* restock date is later than the start date plus horizon days.
C9_WithinHorizon ==
    PipelineReturned =>
        LET r == ret.value
            latest == StartDate(ret.args.demand_series) + r.horizon_days * TicksPerDay
        IN  /\ r.restock_date_median <= latest
            /\ Probabilistic(r) =>
                  /\ r.restock_date_low <= latest
                  /\ r.restock_date_high <= latest
                  /\ r.restock_day_low <= 10 * r.horizon_days
                  /\ r.restock_day_median <= 10 * r.horizon_days
                  /\ r.restock_day_high <= 10 * r.horizon_days

\* the s-th sample path of an ensemble
SamplePath(samples_forecast, s) ==
    [t \in 1 .. samples_forecast.shape[1] |->
        samples_forecast.data[(t - 1) * samples_forecast.shape[3] + s]]

\* one value for each of the N sample paths: the path's restock day index,
\* and the horizon length for a path that never crosses
DaysOfEveryPath(current_inventory, samples_forecast, safety_stock) ==
    [s \in 1 .. samples_forecast.shape[3] |->
        LET crossing == CrossingIndices(current_inventory,
                                        SamplePath(samples_forecast, s), safety_stock)
        IN  IF crossing = {} THEN samples_forecast.shape[1]
            ELSE CHOOSE i \in crossing : \A j \in crossing : i <= j]

\* C10 (as claimed): the median and the quantiles of an estimate are those of
\* one value per sample path, every one of the N paths giving its restock
\* day index, or the horizon length when it never crosses.
C10_EveryPathContributes ==
    EstimateReturned =>
        LET a == ret.args
            days == DaysOfEveryPath(a.current_inventory, a.samples_forecast,
                                    a.safety_stock)
        IN  /\ ret.value.restock_day_median = Quantile(days, MEDIAN_QUANTILE)
            /\ ret.value.restock_day_low = Quantile(days, RESTOCK_QUANTILE_LOW)
            /\ ret.value.restock_day_high = Quantile(days, RESTOCK_QUANTILE_HIGH)

\* the largest daily demand a forecast path can hold
MaxPredicted == CHOOSE v \in PredValues : \A w \in PredValues : w <= v

\* the inventory is so large that no path of horizon days brings it down to
\* the safety stock
NeverCrosses(current_inventory, horizon, safety_stock) ==
    current_inventory - horizon * MaxPredicted > safety_stock

\* C11 (as claimed): when the inventory is so large that no forecast path
\* reaches the safety stock within the horizon, the median restock date of
\* the result is the start date plus horizon days, in both modes.
C11_NeverCrossesMedian ==
    (/\ PipelineReturned
     /\ NeverCrosses(ret.args.current_inventory, ret.args.horizon,
                     ret.args.safety_stock))
    => ret.value.restock_date_median =
          StartDate(ret.args.demand_series) + ret.args.horizon * TicksPerDay

\* C12 (as claimed): the result of a probabilistic forecast reports the
\* number of sample paths that crossed the threshold within the horizon, a
\* number from 0 to the ensemble size.
C12_PathCountReported ==
    (PipelineReturned /\ Probabilistic(ret.value)) =>
        /\ "paths_within_horizon" \in DOMAIN ret.value
        /\ ret.value.paths_within_horizon \in 0 .. ret.args.num_samples

\* the keys of the interval of a restock estimate
IntervalKeys ==
    {"restock_date_low", "restock_date_high", "restock_day_low", "restock_day_high"}

\* the day the point forecast depletes the inventory, the horizon when it
\* never does
DepletionDay(current_inventory, point_values, safety_stock) ==
    LET crossing == CrossingIndices(current_inventory, point_values, safety_stock)
    IN  IF crossing = {} THEN Len(point_values)
        ELSE CHOOSE i \in crossing : \A j \in crossing : i <= j

\* C13: in deterministic mode (num_samples <= 1) the result carries one
\* restock date, restock_date_median, which is the start date plus the
\* depletion day of the point forecast; it has no low or high date, no day
\* index, and its restock_confidence_level is None.
C13_DeterministicMode ==
    (PipelineReturned /\ ret.args.num_samples <= 1) =>
        LET r == ret.value
            a == ret.args
        IN  /\ r.restock_confidence_level = NoValue
            /\ DOMAIN r \cap (IntervalKeys \cup {"restock_day_median"}) = {}
            /\ r.restock_date_median =
                  StartDate(a.demand_series)
                  + DepletionDay(a.current_inventory, r.predicted_demand_per_day,
                                 a.safety_stock) * TicksPerDay

C13_Witness ==
    /\ PipelineReturned
    /\ ret.args.num_samples = 1
    /\ ret.args.horizon = MaxHorizon
    /\ ret.value.restock_confidence_level = NoValue
    /\ ret.value.restock_date_median = StartDate(ret.args.demand_series) + TicksPerDay

\* C14 (as claimed): given an ensemble of one path, the estimator reports a
\* single restock date with no interval and a confidence level that is
\* unavailable.
C14_DegenerateEnsemble ==
    (EstimateReturned /\ ret.args.samples_forecast.shape[3] = 1) =>
        /\ "restock_date_median" \in DOMAIN ret.value
        /\ DOMAIN ret.value \cap IntervalKeys = {}
        /\ "confidence_level" \in DOMAIN ret.value
              => ret.value.confidence_level = NoValue

\* the sum of the entries of a sequence at the indices of I
RECURSIVE SumAt(_, _)
SumAt(values, I) ==
    IF I = {} THEN 0
    ELSE LET i == CHOOSE x \in I : TRUE
         IN  values[i] + SumAt(values, I \ {i})

ValidParameters(c) == c.horizon \in 1 .. 90 /\ c.safety_stock >= 0

\* a call of the pipeline has failed
PipelineFailed ==
    /\ ret.fn \in {"run_forecast", "run_forecast_from_series"}
    /\ "raised" \in DOMAIN ret
    /\ ret.raised # ""

\* C16 (as claimed): a request whose horizon is outside 1..90 or whose safety
\* stock is negative is rejected with InvalidParameter before any
\* computation: no model is fitted for it and it returns no result.
C16_InvalidParameterRejected ==
    /\ pc = "forecast_demand" => ValidParameters(call)
    /\ PipelineReturned => ValidParameters(ret.args)
    /\ (PipelineFailed /\ ~ValidParameters(ret.args)) => ret.raised = "InvalidParameter"

\* C17 (as claimed): every failure of the pipeline reaches the caller as one
\* of the three typed outcomes, a failure of model fitting as ModelFitFailure.
C17_TypedOutcomes ==
    PipelineFailed =>
        ret.raised \in {"InsufficientHistory", "ModelFitFailure", "InvalidParameter"}

\* C18 (as claimed): forecast_demand called with an empty series or with
\* fewer than MIN_DAYS_FOR_FORECAST points fails with InsufficientHistory.
C18_ForecastDemandRevalidates ==
    (/\ ret.fn = "forecast_demand"
     /\ Len(ret.args.demand_series) < MIN_DAYS_FOR_FORECAST)
    => ret.raised = "InsufficientHistory"

----------------------------------------------------------------------------
(* Claims about the on-hand quantity of run_forecast, checked under SpecDb *)

\* run_forecast has built the series and read the on-hand quantity, and goes
\* on to fit the model
RunForecastUnderWay == pc = "forecast_demand" /\ call.entry = "run_forecast"

\* C20 (as claimed): the on-hand quantity run_forecast hands to the pipeline
\* is an EOD count of the last day of the demand series, the day before the
\* start date, whatever the stored history.
C20_OnHandAtStartBoundary ==
    RunForecastUnderWay =>
        \E o \in Observations(call.product_type, call.store_name) :
            /\ o.time_of_day = "EOD"
            /\ CalendarDay(o.timestamp) * TicksPerDay
                  = call.demand_series[Len(call.demand_series)].date
            /\ o.count = call.current_inventory

\* C21: whenever run_forecast gets past the check of the history, the
\* requested product has an EOD observation in the requested scope, the
\* lookup of the latest EOD count finds a row, and the on-hand quantity is a
\* stored EOD count, not the fallback 0.0.
C21_EodFound ==
    RunForecastUnderWay =>
        /\ call.eod_found
        /\ \E o \in Observations(call.product_type, call.store_name) :
              /\ o.time_of_day = "EOD"
              /\ o.count = call.current_inventory

C21_Witness ==
    /\ RunForecastUnderWay
    /\ call.eod_found
    /\ call.current_inventory = MaxCount
    /\ call.store_name = NoStore
    /\ \E o \in Observations(call.product_type, call.store_name) :
          o.time_of_day = "EOD" /\ o.count # call.current_inventory

============================================================================
